---------------------------- MODULE Spec2Model ----------------------------
(***************************************************************************)
(* A model of rtstat (src/rtstat/rtstat.py): the telnet session protocol   *)
(* of class TG585v8, the poll performed by main(), and the text functions  *)
(* the poll runs device output through.                                    *)
(*                                                                         *)
(* Text is a sequence of characters; a character is a one-character string *)
(* ("\r" and "\n" are carriage return and newline).  The three names ESC,  *)
(* DEL and EACUTE stand for the code points 27, 127 and 233, and BACKTICK   *)
(* for the grave accent.                                                   *)
(***************************************************************************)
EXTENDS Integers, Sequences, FiniteSets

(***************************************************************************)
(* Characters and code points                                              *)
(***************************************************************************)
Printable ==
    <<" ", "!", "\"", "#", "$", "%", "&", "'", "(", ")", "*", "+", ",", "-",
      ".", "/", "0", "1", "2", "3", "4", "5", "6", "7", "8", "9", ":", ";",
      "<", "=", ">", "?", "@", "A", "B", "C", "D", "E", "F", "G", "H", "I",
      "J", "K", "L", "M", "N", "O", "P", "Q", "R", "S", "T", "U", "V", "W",
      "X", "Y", "Z", "[", "\\", "]", "^", "_", "BACKTICK", "a", "b", "c", "d", "e",
      "f", "g", "h", "i", "j", "k", "l", "m", "n", "o", "p", "q", "r", "s",
      "t", "u", "v", "w", "x", "y", "z", "{", "|", "}", "~">>

ESC == "ESC"
DEL == "DEL"
EACUTE == "EACUTE"

\* ord(c): the code point of a character.
Ord(c) ==
    CASE c = "\t" -> 9
      [] c = "\n" -> 10
      [] c = "\r" -> 13
      [] c = ESC -> 27
      [] c = DEL -> 127
      [] c = EACUTE -> 233
      [] OTHER -> 31 + (CHOOSE i \in 1..Len(Printable) : Printable[i] = c)

CRLF == <<"\r", "\n">>

(***************************************************************************)
(* Python's string operations, as the code uses them                       *)
(***************************************************************************)
\* s[a:b] for 0 <= a, with b clipped to the length (0-based, b exclusive).
Slice(s, a, b) ==
    LET hi == IF b > Len(s) THEN Len(s) ELSE b
    IN  IF a >= hi THEN <<>> ELSE SubSeq(s, a + 1, hi)

\* s.endswith(t)
EndsWith(s, t) ==
    /\ Len(t) <= Len(s)
    /\ SubSeq(s, Len(s) - Len(t) + 1, Len(s)) = t

\* Whether t occurs in s at 0-based offset k.
OccursAt(s, t, k) ==
    /\ 0 <= k
    /\ k + Len(t) <= Len(s)
    /\ SubSeq(s, k + 1, k + Len(t)) = t

\* s.find(t): the first offset at which t occurs in s, or -1.
Find(s, t) ==
    LET hits == {k \in 0..Len(s) : OccursAt(s, t, k)}
    IN  IF hits = {} THEN -1
        ELSE CHOOSE k \in hits : \A j \in hits : k <= j

\* The characters str.strip() and str.split() treat as whitespace.
IsSpace(c) == c \in {" ", "\t", "\n", "\r"}

\* s.strip()
Strip(s) ==
    LET keep == {k \in 1..Len(s) : ~IsSpace(s[k])}
    IN  IF keep = {} THEN <<>>
        ELSE LET lo == CHOOSE k \in keep : \A j \in keep : k <= j
                 hi == CHOOSE k \in keep : \A j \in keep : j <= k
             IN  SubSeq(s, lo, hi)

\* s.split(sep) for a one-character sep: the pieces between the separators.
RECURSIVE SplitOn(_, _)
SplitOn(s, sep) ==
    LET k == Find(s, <<sep>>)
    IN  IF k = -1 THEN <<s>>
        ELSE <<Slice(s, 0, k)>> \o SplitOn(Slice(s, k + 1, Len(s)), sep)

\* s.split(): the maximal runs of non-whitespace characters.
RECURSIVE SplitWs(_)
SplitWs(s) ==
    LET t == Strip(s)
        stops == {k \in 1..Len(t) : IsSpace(t[k])}
    IN  IF t = <<>> THEN <<>>
        ELSE IF stops = {} THEN <<t>>
        ELSE LET k == CHOOSE x \in stops : \A j \in stops : x <= j
             IN  <<SubSeq(t, 1, k - 1)>> \o SplitWs(SubSeq(t, k + 1, Len(t)))

\* sep.join(parts) for a one-character sep.
RECURSIVE Join(_, _)
Join(parts, sep) ==
    IF parts = <<>> THEN <<>>
    ELSE IF Len(parts) = 1 THEN parts[1]
    ELSE parts[1] \o <<sep>> \o Join(Tail(parts), sep)

\* s.replace(c, '') for a one-character c.
Remove(s, c) == SelectSeq(s, LAMBDA x : x # c)

Digits == <<"0", "1", "2", "3", "4", "5", "6", "7", "8", "9">>

IsDigit(c) == \E d \in 1..Len(Digits) : Digits[d] = c

DigitValue(c) == (CHOOSE d \in 1..Len(Digits) : Digits[d] = c) - 1

RECURSIVE DecimalValue(_)
DecimalValue(ds) ==
    IF ds = <<>> THEN 0
    ELSE 10 * DecimalValue(SubSeq(ds, 1, Len(ds) - 1)) + DigitValue(ds[Len(ds)])

\* The outcome of a call that may raise: a value or the name of the error.
Ok(v) == [ok |-> TRUE, val |-> v]
Raise(e) == [ok |-> FALSE, err |-> e]

\* int(s): surrounding whitespace and one sign are accepted, and single
\* underscores between digits; anything else is a ValueError.
ParseInt(s) ==
    LET t == Strip(s)
        signed == t # <<>> /\ t[1] \in {"+", "-"}
        body == IF signed THEN Tail(t) ELSE t
        wellFormed ==
            /\ body # <<>>
            /\ \A k \in 1..Len(body) : IsDigit(body[k]) \/ body[k] = "_"
            /\ \A k \in 1..Len(body) :
                   body[k] = "_" =>
                       /\ 1 < k /\ k < Len(body)
                       /\ IsDigit(body[k - 1]) /\ IsDigit(body[k + 1])
        magnitude == DecimalValue(Remove(body, "_"))
    IN  IF ~wellFormed THEN Raise("ValueError")
        ELSE Ok(IF signed /\ t[1] = "-" THEN 0 - magnitude ELSE magnitude)

(***************************************************************************)
(* Utility functions                                                       *)
(***************************************************************************)
\* sanitize with DEL (code point 127) let through.
sanitize_through_127(s) ==
    SelectSeq(s, LAMBDA c : (31 < Ord(c) /\ Ord(c) <= 127) \/ c = "\n")

\* sanitize(s): the characters of s that are printable ASCII or a newline.
sanitize(s) ==
    SelectSeq(s, LAMBDA c : (31 < Ord(c) /\ Ord(c) < 127) \/ c = "\n")

\* A dictionary is a function from its keys; this is d[k] = v.
DictPut(d, k, v) ==
    [x \in DOMAIN d \cup {k} |-> IF x = k THEN v ELSE d[x]]

EmptyDict == [x \in {} |-> <<>>]

\* merge_dicts that stops after its first argument.
merge_first_only(a, b) == a

\* merge_dicts(a, b): b's entries over a's.
merge_dicts(a, b) ==
    [x \in DOMAIN a \cup DOMAIN b |-> IF x \in DOMAIN b THEN b[x] ELSE a[x]]

\* The inner loop breaking at the first separator, whatever the depth.
RECURSIVE ScanLineAnyDepth(_, _, _, _)
ScanLineAnyDepth(line, sep, k, level) ==
    IF line[k + 1] = sep \/ k + 1 = Len(line) THEN k
    ELSE ScanLineAnyDepth(line, sep, k + 1, level)

\* The inner loop of parse_key_value over one line: the value the loop
\* variable i holds when the loop ends, scanning from offset k at depth
\* level.  The loop breaks at the first separator met at depth zero and
\* otherwise runs i up to the last offset.
RECURSIVE ScanLine(_, _, _, _)
ScanLine(line, sep, k, level) ==
    LET c == line[k + 1]
        next == IF c = "(" THEN level + 1
                ELSE IF c = ")" THEN level - 1
                ELSE level
        break == c \notin {"(", ")"} /\ c = sep /\ level = 0
    IN  IF break \/ k + 1 = Len(line) THEN k
        ELSE ScanLine(line, sep, k + 1, next)

\* The value of i after the inner loop: an empty line leaves i as it was
\* (Unbound when nothing has assigned it yet).
Unbound == -1

LoopIndex(line, sep, iBefore) ==
    IF line = <<>> THEN iBefore ELSE ScanLine(line, sep, 0, 0)

\* parse_key_value(lines, sep): the lines are taken in order, kv and i
\* carried from one line to the next.
RECURSIVE ParseLines(_, _, _, _)
ParseLines(lines, sep, kv, iBefore) ==
    IF lines = <<>> THEN Ok(kv)
    ELSE LET line == Head(lines)
             i == LoopIndex(line, sep, iBefore)
             k == Strip(Slice(line, 0, i))
             v == Strip(Slice(line, i + 1, Len(line)))
         IN  IF i = Unbound THEN Raise("UnboundLocalError")
             ELSE ParseLines(Tail(lines), sep,
                             IF k # <<>> THEN DictPut(kv, k, v) ELSE kv, i)

parse_key_value(lines, sep) == ParseLines(lines, sep, EmptyDict, Unbound)


(***************************************************************************)
(* Field extraction of the device profile                                  *)
(***************************************************************************)
KeyUptime ==
    <<"U", "p", " ", "t", "i", "m", "e", " ", "(", "D", "a", "y", "s", " ",
      "h", "h", ":", "m", "m", ":", "s", "s", ")">>

KeyBandwidth ==
    <<"B", "a", "n", "d", "w", "i", "d", "t", "h", " ", "(", "D", "o", "w",
      "n", "/", "U", "p", " ", "-", " ", "k", "b", "i", "t", "/", "s", ")">>

KeyState ==
    <<"M", "o", "d", "e", "m", " ", "s", "t", "a", "t", "e">>

KeyType ==
    <<"x", "D", "S", "L", " ", "T", "y", "p", "e">>

\* One field of '%H:%M:%S': one or two digits, below the limit.
ParseField(s, limit) ==
    IF Len(s) \in {1, 2} /\ (\A k \in 1..Len(s) : IsDigit(s[k]))
           /\ DecimalValue(s) < limit
        THEN Ok(DecimalValue(s))
    ELSE Raise("ValueError")

\* The seconds since midnight with the hours counted as minutes.
ParseHMSHoursAsMinutes(s) ==
    LET f == SplitOn(s, ":")
    IN  IF Len(f) # 3 THEN Raise("ValueError")
        ELSE LET h == ParseField(f[1], 24)
                 m == ParseField(f[2], 60)
                 sec == ParseField(f[3], 60)
             IN  IF ~h.ok \/ ~m.ok \/ ~sec.ok THEN Raise("ValueError")
                 ELSE Ok(h.val * 60 + m.val * 60 + sec.val)

\* datetime.strptime(s, '%H:%M:%S'), as the seconds since midnight
\* t.hour * 3600 + t.minute * 60 + t.second.
ParseHMS(s) ==
    LET f == SplitOn(s, ":")
    IN  IF Len(f) # 3 THEN Raise("ValueError")
        ELSE LET h == ParseField(f[1], 24)
                 m == ParseField(f[2], 60)
                 sec == ParseField(f[3], 60)
             IN  IF ~h.ok \/ ~m.ok \/ ~sec.ok THEN Raise("ValueError")
                 ELSE Ok(h.val * 3600 + m.val * 60 + sec.val)

\* The body of get_xdsl_info after its send: text is what send('xdsl info')
\* returned.  The lookups and conversions raise in the order of the code.
XdslFields(text) ==
    LET parsed == parse_key_value(SplitOn(text, "\n"), ":")
    IN  IF ~parsed.ok THEN parsed
        ELSE LET kv == parsed.val
        IN  IF KeyUptime \notin DOMAIN kv THEN Raise("KeyError")
        ELSE LET uptime_str == kv[KeyUptime]
                 parts == SplitOn(uptime_str, ",")
                 days == ParseInt(SplitOn(Strip(parts[1]), " ")[1])
        IN  IF ~days.ok THEN days
        ELSE IF Len(parts) < 2 THEN Raise("IndexError")
        ELSE LET t == ParseHMS(Strip(parts[2]))
        IN  IF ~t.ok THEN t
        ELSE IF KeyBandwidth \notin DOMAIN kv THEN Raise("KeyError")
        ELSE LET bandwidth_str == SplitOn(kv[KeyBandwidth], "/")
                 down == ParseInt(bandwidth_str[1])
        IN  IF ~down.ok THEN down
        ELSE IF Len(bandwidth_str) < 2 THEN Raise("IndexError")
        ELSE LET up == ParseInt(bandwidth_str[2])
        IN  IF ~up.ok THEN up
        ELSE IF KeyState \notin DOMAIN kv THEN Raise("KeyError")
        ELSE IF KeyType \notin DOMAIN kv THEN Raise("KeyError")
        ELSE Ok([state |-> kv[KeyState],
                 uptime |-> days.val * 3600 * 24 + t.val,
                 type |-> kv[KeyType],
                 bandwidth_down |-> (1000 * down.val) \div 8,
                 bandwidth_up |-> (1000 * up.val) \div 8])

\* The loop of get_iflist_info over the lines after the header line.
RECURSIVE IflistLines(_, _)
IflistLines(lines, info) ==
    IF lines = <<>> THEN Ok(info)
    ELSE LET line == Join(SplitWs(Remove(Head(lines), ".")), " ")
             tokens == SplitWs(line)
         IN  IF line = <<>> THEN IflistLines(Tail(lines), info)
             ELSE IF Len(tokens) < 5 THEN Raise("IndexError")
             ELSE LET tx == ParseInt(tokens[5])
             IN  IF ~tx.ok THEN tx
             ELSE IF Len(tokens) < 6 THEN Raise("IndexError")
             ELSE LET rx == ParseInt(tokens[6])
             IN  IF ~rx.ok THEN rx
             ELSE IflistLines(Tail(lines),
                      DictPut(info, tokens[3], [tx |-> tx.val, rx |-> rx.val]))

\* The body of get_iflist_info after its send.
IflistFields(text) == IflistLines(Tail(SplitOn(text, "\n")), EmptyDict)

(***************************************************************************)
(* The texts of the session protocol                                       *)
(***************************************************************************)
UsernamePrompt ==
    <<"U", "s", "e", "r", "n", "a", "m", "e", " ", ":", " ">>

PasswordPrompt ==
    <<"P", "a", "s", "s", "w", "o", "r", "d", " ", ":", " ">>

DefaultUsername ==
    <<"A", "d", "m", "i", "n", "i", "s", "t", "r", "a", "t", "o", "r">>

DefaultPassword ==
    <<>>

CmdUp ==
    <<".", ".">>

CmdXdslInfo ==
    <<"x", "d", "s", "l", " ", "i", "n", "f", "o">>

CmdIpIflist ==
    <<"i", "p", " ", "i", "f", "l", "i", "s", "t">>

CmdHelp ==
    <<"h", "e", "l", "p">>

CmdExit ==
    <<"e", "x", "i", "t">>

\* '{{{0}}}=>'.format(username): the top-level prompt __init__ waits for.
LoginPrompt(u) == <<"{">> \o u \o <<"}", "=", ">">>

\* '{{{0}}}'.format(username): the prompt marker send waits for.
PromptMarker(u) == <<"{">> \o u \o <<"}">>

\* The terminator of the first read of send, which skips the echo.
EchoTerminator == CRLF

\* reset_level with a loop of three.
ResetLevelThrice == [n \in 1..3 |-> CmdUp]

\* reset_level's commands: '..', four times.
ResetLevelCommands == [n \in 1..4 |-> CmdUp]

(***************************************************************************)
(* The device: what a TG585 v8 puts on the stream.  Its lines end in CRLF, *)
(* it echoes what is typed, and it prompts '{user}=>' at the top level and *)
(* '{user}[group]=>' inside a command group.                               *)
(***************************************************************************)
\* A command that enters a command group.
CmdGroup ==
    <<"x", "d", "s", "l">>

\* The header shown after logging in, colour codes included.
Banner ==
    <<ESC, "[", "1", "m", "*", "T", "G", "5", "8", "5", "*", "\r", "\n">>

HelpAnswer ==
    <<ESC, "[", "0", "m", "h", "e", "l", "p", " ", ":", " ", "{", "x", "}",
      "\r", "\n", "e", "x", "i", "t", " ", ":", " ", "=", ">", "\r", "\n">>

\* Answers to 'xdsl info': the expected layout, one without the type line,
\* one that opens with an empty line, one with a layout of the rates the
\* profile does not expect.
XdslGood ==
    <<"M", "o", "d", "e", "m", " ", "s", "t", "a", "t", "e", ":", " ", "S",
      "h", "o", "w", "t", "i", "m", "e", "\r", "\n", "U", "p", " ", "t",
      "i", "m", "e", " ", "(", "D", "a", "y", "s", " ", "h", "h", ":", "m",
      "m", ":", "s", "s", ")", ":", " ", "1", ",", " ", "0", "0", ":", "0",
      "0", ":", "0", "0", "\r", "\n", "B", "a", "n", "d", "w", "i", "d",
      "t", "h", " ", "(", "D", "o", "w", "n", "/", "U", "p", " ", "-", " ",
      "k", "b", "i", "t", "/", "s", ")", ":", " ", "8", "0", "0", "0", "/",
      "8", "0", "0", "\r", "\n", "x", "D", "S", "L", " ", "T", "y", "p",
      "e", ":", " ", "V", "D", "S", "L", "2", "\r", "\n">>

XdslNoType ==
    <<"M", "o", "d", "e", "m", " ", "s", "t", "a", "t", "e", ":", " ", "S",
      "h", "o", "w", "t", "i", "m", "e", "\r", "\n", "U", "p", " ", "t",
      "i", "m", "e", " ", "(", "D", "a", "y", "s", " ", "h", "h", ":", "m",
      "m", ":", "s", "s", ")", ":", " ", "1", ",", " ", "0", "0", ":", "0",
      "0", ":", "0", "0", "\r", "\n", "B", "a", "n", "d", "w", "i", "d",
      "t", "h", " ", "(", "D", "o", "w", "n", "/", "U", "p", " ", "-", " ",
      "k", "b", "i", "t", "/", "s", ")", ":", " ", "8", "0", "0", "0", "/",
      "8", "0", "0", "\r", "\n">>

XdslBlankFirst ==
    <<"\r", "\n", "M", "o", "d", "e", "m", " ", "s", "t", "a", "t", "e",
      ":", " ", "S", "h", "o", "w", "t", "i", "m", "e", "\r", "\n">>

XdslBadRate ==
    <<"U", "p", " ", "t", "i", "m", "e", " ", "(", "D", "a", "y", "s", " ",
      "h", "h", ":", "m", "m", ":", "s", "s", ")", ":", " ", "0", ",", " ",
      "0", "0", ":", "0", "0", ":", "5", "9", "\r", "\n", "B", "a", "n",
      "d", "w", "i", "d", "t", "h", " ", "(", "D", "o", "w", "n", "/", "U",
      "p", " ", "-", " ", "k", "b", "i", "t", "/", "s", ")", ":", " ", "8",
      " ", "M", "b", "i", "t", "\r", "\n">>

\* Answers to 'ip iflist': a table, a table with a short row, nothing.
IflistGood ==
    <<"I", "n", "t", "e", "r", "f", "a", "c", "e", " ", "G", "r", "o", "u",
      "p", " ", "R", "X", " ", "T", "X", "\r", "\n", "0", " ", "1", " ",
      "l", "o", "o", "p", " ", ".", " ", ".", " ", "l", "o", "c", "a", "l",
      " ", "1", "1", "6", " ", "1", "2", "\r", "\n", "1", " ", "2", " ",
      "w", "a", "n", ".", " ", ".", " ", ".", " ", "e", "x", "t", " ", "0",
      " ", "7", "\r", "\n">>

IflistShort ==
    <<"I", "n", "t", "e", "r", "f", "a", "c", "e", " ", "G", "r", "o", "u",
      "p", " ", "R", "X", " ", "T", "X", "\r", "\n", "0", " ", "1", " ",
      "l", "o", "o", "p", " ", "l", "o", "c", "a", "l", "\r", "\n">>

IflistEmpty ==
    <<>>

XdslAnswers == {XdslGood, XdslNoType, XdslBlankFirst, XdslBadRate}

IflistAnswers == {IflistGood, IflistShort, IflistEmpty}

DevicePrompt(u, depth) ==
    IF depth = 0 THEN <<"{">> \o u \o <<"}", "=", ">">>
    ELSE <<"{">> \o u \o <<"}", "[", "x", "d", "s", "l", "]", "=", ">">>

\* The depth after a command: '..' goes up one group and does nothing at
\* the top level; a group command goes down one group.
DepthAfter(cmd, depth) ==
    IF cmd = CmdUp THEN (IF depth = 0 THEN 0 ELSE depth - 1)
    ELSE IF cmd = CmdGroup THEN depth + 1
    ELSE depth

\* The outputs the device may give to a command.
Answers(cmd) ==
    IF cmd = CmdXdslInfo THEN XdslAnswers
    ELSE IF cmd = CmdIpIflist THEN IflistAnswers
    ELSE IF cmd = CmdHelp THEN {HelpAnswer}
    ELSE {<<>>}

(***************************************************************************)
(* The state of a poll                                                     *)
(***************************************************************************)
VARIABLES
    client,      \* "main": the poll of main(); "api": a caller of the class
    username,    \* self.username
    password,    \* self.password
    conn,        \* self.conn: "none", "open" or "closed"
    connected,   \* self.connected (FALSE while the attribute is not set)
    cookedq,     \* the text received from the stream and not yet read
    wire,        \* the text the device has sent that has not arrived yet
    eof,         \* the device has closed the stream
    devStage,    \* the device: "username", "password", "shell" or "gone"
    devDepth,    \* the device's command group nesting depth
    devAnswer,   \* the output the device gave to the last command
    pc,          \* the position of the program
    query,       \* the operation of the class in progress
    cmds,        \* the commands the operation has still to send
    ret,         \* what the last send returned
    lastRead,    \* the last call of read
    depthBefore, \* the device's depth when reset_level was last called
    xdsl,        \* what get_xdsl_info returned
    iflist,      \* what get_iflist_info returned
    stamp,       \* the value of time.time() in main
    err,         \* the exception that is propagating
    firstErr,    \* the first exception raised in the poll
    out,         \* what main printed
    log,         \* the transport operations of main's poll, in order
    text_fn,     \* the text function being applied on its own, or "none"
    text_in,     \* its argument
    text_out,    \* what it returned or raised
    line_no,     \* parse_key_value: the number of lines taken so far
    kv_acc,      \* parse_key_value: the dictionary kv
    i_var        \* parse_key_value: the loop variable i

vars == <<client, username, password, conn, connected, cookedq, wire, eof,
          devStage, devDepth, devAnswer, pc, query, cmds, ret, lastRead,
          depthBefore, xdsl, iflist, stamp, err, firstErr, out, log,
          text_fn, text_in, text_out, line_no, kv_acc, i_var>>

args == <<client, username, password>>
device == <<devStage, devDepth, devAnswer>>
stream == <<cookedq, wire, eof, lastRead>>
results == <<ret, xdsl, iflist, stamp, out>>
errors == <<err, firstErr>>
texts == <<text_fn, text_in, text_out, line_no, kv_acc, i_var>>

None == [has |-> FALSE]
Some(v) == [has |-> TRUE, val |-> v]

\* The arguments main passes on: args.username and args.password, where
\* an option left out is the empty text here.
UsernameArgs == {<<>>, <<"r", "o", "o", "t">>}
PasswordArgs == {<<>>, <<"p", "w">>}

\* How far from either end of the text in flight a read may be cut short.
MaxCut == 1

\* The nesting depth the device is driven to.
MaxDepth == 5

\* The readings of the clock.
MaxTime == 1

\* a or b
OrDefault(a, b) == IF a = <<>> THEN b ELSE a

\* No text function is being applied on its own.
TextIdle ==
    /\ text_fn = "none"
    /\ text_in = <<>>
    /\ text_out = None
    /\ line_no = 0
    /\ kv_acc = EmptyDict
    /\ i_var = Unbound

InitOf(c) ==
    /\ client = c
    /\ \E u \in UsernameArgs : username = OrDefault(u, DefaultUsername)
    /\ \E p \in PasswordArgs : password = OrDefault(p, DefaultPassword)
    /\ conn = "none"
    /\ connected = FALSE
    /\ cookedq = <<>>
    /\ wire = <<>>
    /\ eof = FALSE
    /\ devStage = "username"
    /\ devDepth = 0
    /\ devAnswer = <<>>
    /\ pc = "start"
    /\ query = "none"
    /\ cmds = <<>>
    /\ ret = None
    /\ lastRead = None
    /\ depthBefore = 0
    /\ xdsl = None
    /\ iflist = None
    /\ stamp = 0
    /\ err = "none"
    /\ firstErr = "none"
    /\ out = None
    /\ log = <<>>
    /\ TextIdle

Init == InitOf("main")

InitApi == InitOf("api")

(***************************************************************************)
(* The transport: telnetlib's read_until, write and close                  *)
(***************************************************************************)
Logged(entries) == IF client = "main" THEN log \o entries ELSE log

\* What the device puts on the stream when it receives a line.
DeviceReplies(line) ==
    LET cmd == Slice(line, 0, Len(line) - 2)
    IN  IF eof \/ devStage = "gone" THEN
            {[text |-> <<>>, stage |-> devStage, depth |-> devDepth,
              answer |-> devAnswer]}
        ELSE IF devStage = "username" THEN
            {[text |-> line \o PasswordPrompt, stage |-> "password",
              depth |-> devDepth, answer |-> devAnswer]}
        ELSE IF devStage = "password" THEN
            {[text |-> CRLF \o Banner \o DevicePrompt(username, 0),
              stage |-> "shell", depth |-> 0, answer |-> devAnswer]}
        ELSE IF cmd = CmdExit THEN
            {[text |-> <<>>, stage |-> "gone", depth |-> devDepth,
              answer |-> devAnswer]}
        ELSE
            {[text |-> line \o o
                         \o DevicePrompt(username, DepthAfter(cmd, devDepth)),
              stage |-> "shell", depth |-> DepthAfter(cmd, devDepth),
              answer |-> o] : o \in Answers(cmd)}

\* conn.write(text) returns: the device receives the line and reacts.
Written(text) ==
    \E r \in DeviceReplies(text) :
        /\ wire' = wire \o r.text
        /\ devStage' = r.stage
        /\ devDepth' = r.depth
        /\ devAnswer' = r.answer

\* The offsets at which the text in flight may stop arriving: at the end
\* of a line, or within MaxCut characters of either end of the text.
Cuts ==
    {k \in 0..Len(wire) :
        \/ k <= MaxCut
        \/ k >= Len(wire) - MaxCut
        \/ OccursAt(wire, CRLF, k - 2)}

\* conn.read_until(match, timeout) when k more characters arrive and then
\* the stream goes quiet (or ends, with closed): the text up to and with
\* the first match if there is one, and otherwise all that was received.
\* The end of the stream is met only by a call that runs out of text.
read_until(match, k, closed) ==
    LET buf == cookedq \o SubSeq(wire, 1, k)
        i == Find(buf, match)
    IN  IF i >= 0 THEN
            [raised |-> FALSE, found |-> TRUE,
             data |-> Slice(buf, 0, i + Len(match)),
             rest |-> Slice(buf, i + Len(match), Len(buf))]
        ELSE IF buf = <<>> /\ (eof \/ closed) THEN
            [raised |-> TRUE, found |-> FALSE, data |-> <<>>, rest |-> <<>>]
        ELSE [raised |-> FALSE, found |-> FALSE, data |-> buf, rest |-> <<>>]

\* read without its check of the terminator.
read_unchecked(s, r) ==
    IF r.raised THEN Raise("EOFError")
    ELSE Ok(sanitize(IF s = <<>> THEN <<>>
                     ELSE Slice(r.data, 0, Len(r.data) - Len(s))))

\* read that returns the text with its terminator.
read_whole(s, r) ==
    IF r.raised THEN Raise("EOFError")
    ELSE IF ~EndsWith(r.data, s) THEN Raise("IOError")
    ELSE Ok(sanitize(r.data))

\* read(s), given what read_until returned.
read(s, r) ==
    IF r.raised THEN Raise("EOFError")
    ELSE IF ~EndsWith(r.data, s) THEN Raise("IOError")
    ELSE Ok(sanitize(IF s = <<>> THEN <<>>
                     ELSE Slice(r.data, 0, Len(r.data) - Len(s))))

\* The entries of the log.
OpenEntry == [op |-> "open"]
ReadEntry(s, ok) == [op |-> "read", text |-> s, ok |-> ok]
WriteEntry(t, ok) == [op |-> "write", text |-> t, ok |-> ok]
CloseEntry == [op |-> "close"]
RaiseEntry(e) == [op |-> "raise", error |-> e]

\* An exception leaves __init__ past the with statement, which then never
\* runs __exit__; one raised in the body of the with statement runs it.
Raised(e, inBody) ==
    /\ err' = e
    /\ firstErr' = IF firstErr = "none" THEN e ELSE firstErr
    /\ pc' = IF inBody THEN "exit" ELSE "done"

\* A call of read(s) when k more characters arrive: its effect on the
\* stream, and then either the next position or the exception.
ReadStep(s, k, closed, inBody, nextPc) ==
    LET r == read_until(s, k, closed)
        v == read(s, r)
    IN  /\ closed => ~r.found
        /\ cookedq' = r.rest
        /\ wire' = IF closed THEN <<>> ELSE SubSeq(wire, k + 1, Len(wire))
        /\ eof' = (eof \/ closed)
        /\ lastRead' = Some([term |-> s, raised |-> r.raised,
                             data |-> r.data, result |-> v])
        /\ IF v.ok
               THEN /\ pc' = nextPc
                    /\ log' = Logged(<<ReadEntry(s, TRUE)>>)
                    /\ UNCHANGED errors
               ELSE /\ Raised(v.err, inBody)
                    /\ log' = Logged(<<ReadEntry(s, FALSE), RaiseEntry(v.err)>>)

\* A call of write(text): the device receives it, or the stream is broken
\* and the call raises.
WriteStep(text, inBody, nextPc) ==
    \/ /\ Written(text)
       /\ pc' = nextPc
       /\ log' = Logged(<<WriteEntry(text, TRUE)>>)
       /\ UNCHANGED errors
    \/ /\ Raised("BrokenPipeError", inBody)
       /\ log' = Logged(<<WriteEntry(text, FALSE),
                          RaiseEntry("BrokenPipeError")>>)
       /\ UNCHANGED <<wire, device>>

(***************************************************************************)
(* TG585v8.__init__: open the connection and log in                        *)
(***************************************************************************)
\* __init__ that writes the username without waiting for its prompt.
OpenAndWrite ==
    /\ pc = "start"
    /\ conn' = "open"
    /\ wire' = UsernamePrompt
    /\ pc' = "init_send_username"
    /\ log' = Logged(<<OpenEntry>>)
    /\ UNCHANGED <<args, texts, connected, cookedq, eof, lastRead, device, query,
                   cmds, depthBefore, results, errors>>

Open ==
    /\ pc = "start"
    /\ \/ /\ conn' = "open"
          /\ wire' = UsernamePrompt
          /\ pc' = "init_username"
          /\ log' = Logged(<<OpenEntry>>)
          /\ UNCHANGED errors
       \/ /\ Raised("ConnectionRefusedError", FALSE)
          /\ log' = Logged(<<RaiseEntry("ConnectionRefusedError")>>)
          /\ UNCHANGED <<conn, wire>>
    /\ UNCHANGED <<args, texts, connected, cookedq, eof, lastRead, device, query,
                   cmds, depthBefore, results>>

InitReadUsername ==
    /\ pc = "init_username"
    /\ \E k \in Cuts, closed \in BOOLEAN :
           ReadStep(UsernamePrompt, k, closed, FALSE, "init_send_username")
    /\ UNCHANGED <<args, texts, conn, connected, device, query, cmds, depthBefore,
                   results>>

InitWriteUsername ==
    /\ pc = "init_send_username"
    /\ WriteStep(username \o CRLF, FALSE, "init_password")
    /\ UNCHANGED <<args, texts, conn, connected, cookedq, eof, lastRead, query,
                   cmds, depthBefore, results>>

InitReadPassword ==
    /\ pc = "init_password"
    /\ \E k \in Cuts, closed \in BOOLEAN :
           ReadStep(PasswordPrompt, k, closed, FALSE, "init_send_password")
    /\ UNCHANGED <<args, texts, conn, connected, device, query, cmds, depthBefore,
                   results>>

\* self.write(self.password + '\r\n'); self.connected = True
InitWritePassword ==
    /\ pc = "init_send_password"
    /\ WriteStep(password \o CRLF, FALSE, "init_prompt")
    /\ connected' = (pc' = "init_prompt")
    /\ UNCHANGED <<args, texts, conn, cookedq, eof, lastRead, query, cmds,
                   depthBefore, results>>

\* The last read of __init__; when it returns, the with statement enters
\* its body with the session.
InitReadPrompt ==
    /\ pc = "init_prompt"
    /\ \E k \in Cuts, closed \in BOOLEAN :
           ReadStep(LoginPrompt(username), k, closed, FALSE, "ready")
    /\ UNCHANGED <<args, texts, conn, connected, device, query, cmds, depthBefore,
                   results>>

(***************************************************************************)
(* TG585v8.send: one command, its echo, its output                         *)
(***************************************************************************)
SendWrite ==
    /\ pc = "send_write"
    /\ WriteStep(Head(cmds) \o CRLF, TRUE, "send_echo")
    /\ UNCHANGED <<args, texts, conn, connected, cookedq, eof, lastRead, query,
                   cmds, depthBefore, results>>

SendReadEcho ==
    /\ pc = "send_echo"
    /\ \E k \in Cuts, closed \in BOOLEAN :
           ReadStep(EchoTerminator, k, closed, TRUE, "send_output")
    /\ UNCHANGED <<args, texts, conn, connected, device, query, cmds, depthBefore,
                   results>>

\* return self.read('{{{0}}}'.format(self.username)); the operation that
\* called send goes on to its next command or to what follows its last.
SendReadOutput ==
    /\ pc = "send_output"
    /\ \E k \in Cuts, closed \in BOOLEAN :
           /\ ReadStep(PromptMarker(username), k, closed, TRUE,
                       IF Len(cmds) > 1 THEN "send_write" ELSE "returned")
           /\ LET v == read(PromptMarker(username),
                            read_until(PromptMarker(username), k, closed))
              IN  IF v.ok
                      THEN ret' = Some(v.val) /\ cmds' = Tail(cmds)
                      ELSE UNCHANGED <<ret, cmds>>
    /\ UNCHANGED <<args, texts, conn, connected, device, query, depthBefore, xdsl,
                   iflist, stamp, out>>

(***************************************************************************)
(* The operations of the class                                             *)
(***************************************************************************)
\* An operation starts: these are the commands it sends, in order.
Begin(q, commands) ==
    /\ pc = "ready"
    /\ query' = q
    /\ cmds' = commands
    /\ ret' = None
    /\ pc' = "send_write"

\* get_xdsl_info without its reset_level.
get_xdsl_info_without_reset == Begin("get_xdsl_info", <<CmdXdslInfo>>)

\* get_xdsl_info: reset_level, then 'xdsl info'.
get_xdsl_info == Begin("get_xdsl_info", ResetLevelCommands \o <<CmdXdslInfo>>)

\* get_iflist_info: reset_level, then 'ip iflist'.
get_iflist_info ==
    Begin("get_iflist_info", ResetLevelCommands \o <<CmdIpIflist>>)

\* main evaluates time.time() and calls get_all_info, which calls
\* get_xdsl_info first.
GetAllInfo ==
    /\ client = "main"
    /\ get_xdsl_info
    /\ \E t \in 0..MaxTime : stamp' = t
    /\ UNCHANGED <<args, texts, conn, connected, stream, device, depthBefore, xdsl,
                   iflist, out, errors, log>>

\* The rest of get_xdsl_info, after its last send: the fields of the
\* output.  In get_all_info, get_iflist_info is called next.
XdslExtract ==
    /\ pc = "returned"
    /\ query = "get_xdsl_info"
    /\ LET r == XdslFields(ret.val)
       IN  IF ~r.ok
               THEN /\ Raised(r.err, TRUE)
                    /\ log' = Logged(<<RaiseEntry(r.err)>>)
                    /\ UNCHANGED <<xdsl, query, cmds, ret>>
           ELSE /\ xdsl' = Some([k \in {"xdsl-info"} |-> r.val])
                /\ log' = log
                /\ UNCHANGED errors
                /\ IF client = "main"
                       THEN /\ query' = "get_iflist_info"
                            /\ cmds' = ResetLevelCommands \o <<CmdIpIflist>>
                            /\ ret' = None
                            /\ pc' = "send_write"
                       ELSE /\ query' = "returning"
                            /\ UNCHANGED <<pc, cmds, ret>>
    /\ UNCHANGED <<args, texts, conn, connected, stream, device, depthBefore,
                   iflist, stamp, out>>

\* The rest of get_iflist_info, after its last send.  In get_all_info the
\* two results are merged next and main prints the snapshot.
IflistExtract ==
    /\ pc = "returned"
    /\ query = "get_iflist_info"
    /\ LET r == IflistFields(ret.val)
       IN  IF ~r.ok
               THEN /\ Raised(r.err, TRUE)
                    /\ log' = Logged(<<RaiseEntry(r.err)>>)
                    /\ UNCHANGED <<iflist, query>>
           ELSE /\ iflist' = Some([k \in {"iflist"} |-> r.val])
                /\ IF client = "main"
                       THEN pc' = "print" /\ UNCHANGED query
                       ELSE query' = "returning" /\ UNCHANGED pc
                /\ log' = log
                /\ UNCHANGED errors
    /\ UNCHANGED <<args, texts, conn, connected, stream, device, cmds, ret,
                   depthBefore, xdsl, stamp, out>>

\* get_all_info returns merge_dicts(...) and main prints the snapshot.
EmitSnapshot ==
    /\ pc = "print"
    /\ out' = Some([router |-> "Thomson TG585 v8",
                    timestamp |-> stamp,
                    data |-> merge_dicts(xdsl.val, iflist.val)])
    /\ pc' = "exit"
    /\ UNCHANGED <<args, texts, conn, connected, stream, device, query, cmds, ret,
                   depthBefore, xdsl, iflist, stamp, errors, log>>

\* __exit__ that closes the connection first and writes the logout after.
ExitCloseFirst ==
    /\ pc = "exit"
    /\ pc' = "done"
    /\ conn' = "closed"
    /\ IF connected
           THEN /\ Written(CmdExit \o CRLF)
                /\ log' = Logged(<<CloseEntry,
                                   WriteEntry(CmdExit \o CRLF, TRUE)>>)
           ELSE /\ log' = Logged(<<CloseEntry>>)
                /\ UNCHANGED <<wire, device>>
    /\ UNCHANGED <<args, texts, connected, cookedq, eof, lastRead, query,
                   cmds, depthBefore, results, errors>>

\* __exit__: the logout command if connected, then the close.  A write
\* that raises ends __exit__ there, and its exception is the one that
\* leaves the with statement.
TG585v8_exit ==
    /\ pc = "exit"
    /\ pc' = "done"
    /\ \/ /\ connected
          /\ Written(CmdExit \o CRLF)
          /\ conn' = "closed"
          /\ log' = Logged(<<WriteEntry(CmdExit \o CRLF, TRUE), CloseEntry>>)
          /\ UNCHANGED errors
       \/ /\ connected
          /\ err' = "BrokenPipeError"
          /\ firstErr' = IF firstErr = "none" THEN err' ELSE firstErr
          /\ log' = Logged(<<WriteEntry(CmdExit \o CRLF, FALSE),
                             RaiseEntry("BrokenPipeError")>>)
          /\ UNCHANGED <<conn, wire, device>>
       \/ /\ ~connected
          /\ conn' = "closed"
          /\ log' = Logged(<<CloseEntry>>)
          /\ UNCHANGED <<wire, device, errors>>
    /\ UNCHANGED <<args, texts, connected, cookedq, eof, lastRead, query, cmds,
                   depthBefore, results>>

(***************************************************************************)
(* A caller of the class other than main                                   *)
(***************************************************************************)
ApiCommands == {CmdUp, CmdGroup, CmdHelp, CmdXdslInfo, CmdIpIflist}

CallSend ==
    /\ client = "api"
    /\ \E c \in ApiCommands :
           /\ c = CmdGroup => devDepth < MaxDepth
           /\ Begin("send", <<c>>)
    /\ UNCHANGED <<args, texts, conn, connected, stream, device, depthBefore, xdsl,
                   iflist, stamp, out, errors, log>>

\* reset_level: '..', four times.
reset_level ==
    /\ client = "api"
    /\ Begin("reset_level", ResetLevelCommands)
    /\ depthBefore' = devDepth
    /\ UNCHANGED <<args, texts, conn, connected, stream, device, xdsl, iflist,
                   stamp, out, errors, log>>

\* keepalive: 'help'.
keepalive ==
    /\ client = "api"
    /\ Begin("keepalive", <<CmdHelp>>)
    /\ UNCHANGED <<args, texts, conn, connected, stream, device, depthBefore, xdsl,
                   iflist, stamp, out, errors, log>>

CallGetXdslInfo ==
    /\ client = "api"
    /\ get_xdsl_info
    /\ UNCHANGED <<args, texts, conn, connected, stream, device, depthBefore, xdsl,
                   iflist, stamp, out, errors, log>>

CallGetIflistInfo ==
    /\ client = "api"
    /\ get_iflist_info
    /\ UNCHANGED <<args, texts, conn, connected, stream, device, depthBefore, xdsl,
                   iflist, stamp, out, errors, log>>

\* The operation returns to the caller, which takes its result.
Return ==
    /\ pc = "returned"
    /\ query \in {"send", "reset_level", "keepalive", "returning"}
    /\ pc' = "ready"
    /\ query' = "none"
    /\ ret' = None
    /\ xdsl' = None
    /\ iflist' = None
    /\ lastRead' = None
    /\ depthBefore' = 0
    /\ UNCHANGED <<args, texts, conn, connected, cookedq, wire, eof, device, cmds,
                   stamp, out, errors, log>>

\* The caller leaves the with statement.
Leave ==
    /\ client = "api"
    /\ pc = "ready"
    /\ pc' = "exit"
    /\ UNCHANGED <<args, texts, conn, connected, stream, device, query, cmds, ret,
                   depthBefore, xdsl, iflist, stamp, out, errors, log>>

(***************************************************************************)
(* The specifications: the poll of main, and any use of the class          *)
(***************************************************************************)
Session ==
    \/ Open
    \/ InitReadUsername
    \/ InitWriteUsername
    \/ InitReadPassword
    \/ InitWritePassword
    \/ InitReadPrompt
    \/ SendWrite
    \/ SendReadEcho
    \/ SendReadOutput
    \/ XdslExtract
    \/ IflistExtract
    \/ TG585v8_exit

Next ==
    \/ Session
    \/ GetAllInfo
    \/ EmitSnapshot

NextApi ==
    \/ Session
    \/ CallSend
    \/ reset_level
    \/ keepalive
    \/ CallGetXdslInfo
    \/ CallGetIflistInfo
    \/ Return
    \/ Leave

Spec == Init /\ [][Next]_vars

SpecApi == InitApi /\ [][NextApi]_vars

(***************************************************************************)
(* The text functions on their own: parse_key_value, taken one line at a   *)
(* time, sanitize, and the conversions of get_xdsl_info                    *)
(***************************************************************************)
\* The length of the texts parse_key_value's lines are cut from.
MaxText == 5

\* The length of the texts sanitize is applied to.
MaxSanitize == 4

\* The number of days of an uptime.
MaxDays == 5

\* Every text of at most n characters of the alphabet.
TextsUpTo(alphabet, n) == UNION {[1..m -> alphabet] : m \in 0..n}

\* The arguments of parse_key_value: the lines of a text, as the callers
\* make them with split('\n'), and the empty list.
ParseAlphabet == {"a", ":", "(", ")", " ", "\n"}

ParseInputs ==
    {<<>>} \cup {SplitOn(t, "\n") : t \in TextsUpTo(ParseAlphabet, MaxText)}

\* The arguments of sanitize: printable characters, the newline, other
\* control characters, and a character beyond ASCII.
SanitizeAlphabet == {"a", " ", "~", "\n", "\r", "\t", ESC, DEL, EACUTE}

SanitizeInputs == TextsUpTo(SanitizeAlphabet, MaxSanitize)

\* An answer to 'xdsl info' of the layout the profile expects: the modem
\* state S, D days and hh:mm:ss of uptime, the rates d and u, the type T.
Showtime == <<"S", "h", "o", "w", "t", "i", "m", "e">>
Idle == <<"I", "d", "l", "e">>
VDSL2 == <<"V", "D", "S", "L", "2">>
ADSL == <<"A", "D", "S", "L">>

XdslForms ==
    [S : {Showtime, Idle}, D : 0..MaxDays, hh : {0, 3, 23}, mm : {0, 20, 59},
     ss : {0, 10, 59}, d : {0, 7, 8000}, u : {1, 800}, T : {VDSL2, ADSL}]

\* A number as the device prints it, in decimal.
RECURSIVE Decimal(_)
Decimal(n) ==
    IF n < 10 THEN <<Digits[n + 1]>>
    ELSE Decimal(n \div 10) \o <<Digits[(n % 10) + 1]>>

\* A field of hh:mm:ss, in two digits.
TwoDigits(n) == <<Digits[(n \div 10) + 1], Digits[(n % 10) + 1]>>

XdslAnswer(f) ==
    KeyState \o <<":", " ">> \o f.S \o CRLF
        \o KeyUptime \o <<":", " ">> \o Decimal(f.D) \o <<",", " ">>
        \o TwoDigits(f.hh) \o <<":">> \o TwoDigits(f.mm) \o <<":">>
        \o TwoDigits(f.ss) \o CRLF
        \o KeyBandwidth \o <<":", " ">> \o Decimal(f.d) \o <<"/">>
        \o Decimal(f.u) \o CRLF
        \o KeyType \o <<":", " ">> \o f.T \o CRLF

InitText ==
    /\ client = "text"
    /\ username = DefaultUsername
    /\ password = DefaultPassword
    /\ conn = "none"
    /\ connected = FALSE
    /\ cookedq = <<>>
    /\ wire = <<>>
    /\ eof = FALSE
    /\ devStage = "username"
    /\ devDepth = 0
    /\ devAnswer = <<>>
    /\ pc = "start"
    /\ query = "none"
    /\ cmds = <<>>
    /\ ret = None
    /\ lastRead = None
    /\ depthBefore = 0
    /\ xdsl = None
    /\ iflist = None
    /\ stamp = 0
    /\ err = "none"
    /\ firstErr = "none"
    /\ out = None
    /\ log = <<>>
    /\ text_out = None
    /\ line_no = 0
    /\ kv_acc = EmptyDict
    /\ i_var = Unbound
    /\ \/ text_fn = "parse_key_value" /\ text_in \in ParseInputs
       \/ text_fn = "sanitize" /\ text_in \in SanitizeInputs
       \/ text_fn = "get_xdsl_info" /\ text_in \in XdslForms

session ==
    <<client, username, password, conn, connected, cookedq, wire, eof,
      devStage, devDepth, devAnswer, pc, query, cmds, ret, lastRead,
      depthBefore, xdsl, iflist, stamp, err, firstErr, out, log>>

\* One turn of the loop of parse_key_value over its lines: the inner loop
\* leaves i, the line is cut at i, and the entry is stored when its key is
\* not empty.  A read of i before anything assigned it ends the call.
ParseLine ==
    /\ text_fn = "parse_key_value"
    /\ ~text_out.has
    /\ line_no < Len(text_in)
    /\ LET line == text_in[line_no + 1]
           i == LoopIndex(line, ":", i_var)
           k == Strip(Slice(line, 0, i))
           v == Strip(Slice(line, i + 1, Len(line)))
       IN  IF i = Unbound
               THEN /\ text_out' = Some(Raise("UnboundLocalError"))
                    /\ UNCHANGED <<line_no, kv_acc, i_var>>
           ELSE /\ line_no' = line_no + 1
                /\ i_var' = i
                /\ kv_acc' = IF k # <<>> THEN DictPut(kv_acc, k, v) ELSE kv_acc
                /\ UNCHANGED text_out
    /\ UNCHANGED <<session, text_fn, text_in>>

\* return kv
ParseReturn ==
    /\ text_fn = "parse_key_value"
    /\ ~text_out.has
    /\ line_no = Len(text_in)
    /\ text_out' = Some(Ok(kv_acc))
    /\ UNCHANGED <<session, text_fn, text_in, line_no, kv_acc, i_var>>

CallSanitize ==
    /\ text_fn = "sanitize"
    /\ ~text_out.has
    /\ text_out' = Some(Ok(sanitize(text_in)))
    /\ UNCHANGED <<session, text_fn, text_in, line_no, kv_acc, i_var>>

\* get_xdsl_info on the answer: send returns the answer sanitized, and the
\* fields are taken from that.
CallXdslFields ==
    /\ text_fn = "get_xdsl_info"
    /\ ~text_out.has
    /\ text_out' = Some(XdslFields(sanitize(XdslAnswer(text_in))))
    /\ UNCHANGED <<session, text_fn, text_in, line_no, kv_acc, i_var>>

NextText ==
    \/ ParseLine
    \/ ParseReturn
    \/ CallSanitize
    \/ CallXdslFields

SpecText == InitText /\ [][NextText]_vars

(***************************************************************************)
(* What the log of a poll shows                                            *)
(***************************************************************************)
Entries == DOMAIN log

IsWrite(i) == log[i].op = "write"
IsRead(i) == log[i].op = "read"
IsClose(i) == log[i].op = "close"
IsRaise(i) == log[i].op = "raise"
IsLogout(i) == IsWrite(i) /\ log[i].text = CmdExit \o CRLF

\* A read of terminator s returned before entry i.
ReadBefore(s, i) ==
    \E j \in Entries : j < i /\ IsRead(j) /\ log[j].ok /\ log[j].text = s

\* The handshake completed: the read of the top-level prompt returned.
HandshakeCompleted == ReadBefore(LoginPrompt(username), Len(log) + 1)

\* The transport was opened.
Opened == \E i \in Entries : log[i].op = "open"

\* The number of the write at entry i among the writes.
WriteNumber(i) == Cardinality({j \in Entries : j <= i /\ IsWrite(j)})

\* The positions at which the session can send commands.
Ready == pc \in {"ready", "send_write", "send_echo", "send_output",
                 "returned", "print"}

(***************************************************************************)
(* The claims                                                              *)
(***************************************************************************)
\* C1: in every poll whose login handshake completed, teardown runs exactly
\* once on every exit path: the logout command 'exit' is written once and
\* after it the transport is closed once.
C1_TeardownExactlyOnce ==
    (pc = "done" /\ HandshakeCompleted) =>
        /\ Cardinality({i \in Entries : IsLogout(i)}) = 1
        /\ Cardinality({i \in Entries : IsClose(i)}) = 1
        /\ \A i, j \in Entries : IsLogout(i) /\ IsClose(j) => i < j

\* C2: once the transport has been opened it is closed exactly once before
\* the poll ends, also when a read of the handshake fails.
C2_TransportClosedOnce ==
    (pc = "done" /\ Opened) =>
        /\ conn = "closed"
        /\ Cardinality({i \in Entries : IsClose(i)}) = 1

\* C3: when an error was raised in the poll and the logout write of the
\* teardown fails too, the error that reaches the caller is the first one.
C3_OriginalErrorSurfaces ==
    (pc = "done" /\ firstErr # "none") => err = firstErr

\* C4: in the teardown the transport is closed whether or not the logout
\* write succeeds.
C4_CloseAfterLogout ==
    \A i \in Entries :
        (pc = "done" /\ IsLogout(i)) =>
            /\ conn = "closed"
            /\ \E j \in Entries : i < j /\ IsClose(j)

\* C5: the handshake keeps its order.  Nothing is written before
\* 'Username : ' was read; the first write is the username and CRLF; the
\* second is the password and CRLF, after 'Password : ' was read; every
\* later write, and the session being ready, comes after the top-level
\* prompt was read; and after a failed read of the handshake nothing is
\* written any more.
C5_HandshakeOrder ==
    /\ \A i \in Entries :
           IsWrite(i) =>
               /\ ReadBefore(UsernamePrompt, i)
               /\ WriteNumber(i) = 1 => log[i].text = username \o CRLF
               /\ WriteNumber(i) >= 2 => ReadBefore(PasswordPrompt, i)
               /\ WriteNumber(i) = 2 => log[i].text = password \o CRLF
               /\ WriteNumber(i) >= 3 => ReadBefore(LoginPrompt(username), i)
    /\ Ready => HandshakeCompleted
    /\ \A i \in Entries :
           (IsRead(i) /\ ~log[i].ok /\ ~ReadBefore(LoginPrompt(username), i))
               => \A j \in Entries : j > i => ~IsWrite(j)

\* C5's case: the handshake has completed and a command has been written.
C5_Witness ==
    /\ pc = "send_echo"
    /\ HandshakeCompleted
    /\ \E i \in Entries : IsWrite(i) /\ WriteNumber(i) = 3

\* C6: a read returns a result only if the text received for it ends with
\* its terminator, and the result is that text without the terminator,
\* sanitized; otherwise the read raises, nothing of the text received stays
\* in the buffer for a later read, and the poll sends and reads no more.
C6_ReadAllOrNothing ==
    lastRead.has =>
        LET r == lastRead.val
        IN  /\ r.result.ok <=> (~r.raised /\ EndsWith(r.data, r.term))
            /\ r.result.ok =>
                   r.result.val =
                       sanitize(SubSeq(r.data, 1, Len(r.data) - Len(r.term)))
            /\ ~r.result.ok =>
                   /\ cookedq = <<>>
                   /\ pc \in {"exit", "done"}
                   /\ err # "none"

\* C6's case: a read timed out with part of the text received.
C6_Witness ==
    /\ lastRead.has
    /\ ~lastRead.val.result.ok
    /\ lastRead.val.data # <<>>
    /\ lastRead.val.term = PromptMarker(username)

C8_ResetReachesTop ==
    (pc = "returned" /\ query = "reset_level") => devDepth = 0

\* C8 as amended: after reset_level the device is at the top level when it
\* was at most four groups deep, and four groups higher when it was deeper.
C8_ResetGoesUpFour ==
    (pc = "returned" /\ query = "reset_level") =>
        devDepth = IF depthBefore <= 4 THEN 0 ELSE depthBefore - 4

\* C8's case: reset_level returned, called inside a nested group.
C8_Witness ==
    /\ pc = "returned"
    /\ query = "reset_level"
    /\ depthBefore = 4
    /\ devDepth = 0

\* C9: main prints the whole snapshot or nothing: what it prints holds the
\* router, the timestamp and both groups, each as its query returned it,
\* and a poll that ends without output ends with an error.
C9_SnapshotWholeOrNone ==
    /\ out.has =>
           /\ xdsl.has /\ iflist.has
           /\ DOMAIN out.val = {"router", "timestamp", "data"}
           /\ DOMAIN out.val.data = {"xdsl-info", "iflist"}
           /\ out.val.data["xdsl-info"] = xdsl.val["xdsl-info"]
           /\ out.val.data["iflist"] = iflist.val["iflist"]
    /\ pc = "done" => (out.has \/ err # "none")

\* C9's case: a poll has ended with its snapshot printed.
C9_Witness == pc = "done" /\ out.has /\ err = "none"

\* After the first error of a poll no command is written and nothing is
\* read: what follows in the log is the logout write, its failure, the close.
NoRetryAfterError ==
    \A i, j \in Entries :
        (IsRaise(i) /\ i < j) => (IsLogout(j) \/ IsClose(j) \/ IsRaise(j))

\* C10: there is no retry.  After the first error only the logout write and
\* the close follow, and the error reaches the caller unchanged.
C10_NoRetryErrorUnchanged ==
    /\ NoRetryAfterError
    /\ \A i \in Entries : IsRaise(i) => (pc = "done" => err = log[i].error)


(***************************************************************************)
(* What the claims say of parse_key_value, stated without its loop         *)
(***************************************************************************)
\* The parenthesis depth at 1-based position p of a line: the '(' less the
\* ')' before it.
Depth(line, p) ==
    Cardinality({q \in 1..(p - 1) : line[q] = "("})
        - Cardinality({q \in 1..(p - 1) : line[q] = ")"})

\* The positions of the separators at depth zero.
Depth0Seps(line) ==
    {p \in 1..Len(line) : line[p] = ":" /\ Depth(line, p) = 0}

FirstSep(line) ==
    CHOOSE p \in Depth0Seps(line) : \A q \in Depth0Seps(line) : p <= q

\* The line the loop of parse_key_value takes next.
NextLine == text_in[line_no + 1]

\* The step is a turn of the loop that went through.
LineTaken == text_fn = "parse_key_value" /\ line_no' = line_no + 1

\* The step is a turn of the loop that ended the call in an error.
LineFailed ==
    /\ text_fn = "parse_key_value"
    /\ ~text_out.has /\ text_out'.has /\ ~text_out'.val.ok

\* C11: a line with no separator at parenthesis depth zero (none at all, or
\* only after an unclosed parenthesis) adds no entry to the mapping.
C11_NoEntryWithoutSeparator ==
    [][(LineTaken /\ Depth0Seps(NextLine) = {}) => kv_acc' = kv_acc]_vars

\* C12: a line with a separator at depth zero is split at the first such
\* separator: the trimmed text before it is the key, the trimmed text after
\* it the value, and no entry is made when the key is empty.
C12_SplitAtFirstSeparator ==
    [][/\ (LineTaken /\ Depth0Seps(NextLine) # {}) =>
              LET p == FirstSep(NextLine)
                  key == Strip(SubSeq(NextLine, 1, p - 1))
                  value == Strip(SubSeq(NextLine, p + 1, Len(NextLine)))
              IN  kv_acc' = IF key = <<>> THEN kv_acc
                            ELSE DictPut(kv_acc, key, value)
       /\ LineFailed => Depth0Seps(NextLine) = {}]_vars

\* C12's case: the line '(:):a' was taken and gave the entry '(:)' -> 'a',
\* the separator inside the parentheses passed over.
C12_Witness ==
    /\ text_fn = "parse_key_value"
    /\ line_no = 1
    /\ text_in[1] = <<"(", ":", ")", ":", "a">>
    /\ kv_acc = DictPut(EmptyDict, <<"(", ":", ")">>, <<"a">>)

\* The mappings of the lines parsed each alone, merged in line order.
RECURSIVE MergedSingles(_)
MergedSingles(lines) ==
    IF lines = <<>> THEN EmptyDict
    ELSE merge_dicts(MergedSingles(SubSeq(lines, 1, Len(lines) - 1)),
                     parse_key_value(<<lines[Len(lines)]>>, ":").val)

\* C13: lines parse independently and the last line wins: the result is
\* that of parsing each line alone, merged in line order.
C13_LinesIndependent ==
    (text_fn = "parse_key_value" /\ text_out.has) =>
        /\ \A n \in 1..Len(text_in) :
               parse_key_value(<<text_in[n]>>, ":").ok
        /\ text_out.val = Ok(MergedSingles(text_in))

\* C14: parse_key_value is total: it returns a mapping for every list of
\* lines.
C14_ParseTotal ==
    (text_fn = "parse_key_value" /\ text_out.has) => text_out.val.ok

\* The two error kinds of the claims, as the code has them: the error read
\* raises for a text that does not end in its terminator, and the error of
\* a dictionary lookup with a missing key.
ProtocolError == "IOError"
DataFormatError == "KeyError"

\* Entry i is the raise of a failed read.
RaisedByRead(i) == i > 1 /\ IsRead(i - 1) /\ ~log[i - 1].ok

\* Entry i is a raise of the field extraction, which follows the read that
\* returned the output.
RaisedByExtraction(i) == i > 1 /\ IsRead(i - 1) /\ log[i - 1].ok

\* C15: every failure of a poll on an open session is of one of two kinds:
\* a failed read gives a ProtocolError, a missing key a DataFormatError, and
\* neither kind comes from the other's cause.
C15_TwoErrorKinds ==
    \A i \in Entries :
        (IsRaise(i) /\ i > 1) =>
            /\ log[i].error \in {ProtocolError, DataFormatError}
            /\ RaisedByRead(i) => log[i].error = ProtocolError
            /\ log[i].error = ProtocolError => RaisedByRead(i)
            /\ log[i].error = DataFormatError => RaisedByExtraction(i)

\* C16: for an answer to 'xdsl info' of the expected layout, with state S,
\* uptime 'D, hh:mm:ss', rates 'd/u' and type T, get_xdsl_info returns the
\* state S, the uptime D*86400 + hh*3600 + mm*60 + ss in seconds, the type T
\* and the rates (1000*d) div 8 and (1000*u) div 8.
C16_XdslConversion ==
    (text_fn = "get_xdsl_info" /\ text_out.has) =>
        /\ text_out.val.ok
        /\ text_out.val.val.state = text_in.S
        /\ text_out.val.val.uptime =
               text_in.D * 86400 + text_in.hh * 3600 + text_in.mm * 60
                   + text_in.ss
        /\ text_out.val.val.type = text_in.T
        /\ text_out.val.val.bandwidth_down = (1000 * text_in.d) \div 8
        /\ text_out.val.val.bandwidth_up = (1000 * text_in.u) \div 8

\* C16's case: the answer with '1, 00:00:00' and '8000/800' was converted
\* to 86400 seconds and 1000000 and 100000 bytes per second.
C16_Witness ==
    /\ text_fn = "get_xdsl_info"
    /\ XdslAnswer(text_in) = XdslGood
    /\ text_out.has
    /\ text_out.val.ok
    /\ text_out.val.val.uptime = 86400
    /\ text_out.val.val.bandwidth_down = 1000000
    /\ text_out.val.val.bandwidth_up = 100000

\* The positions of s whose character is a newline or has a code point
\* strictly between 31 and 127.
KeptPositions(s) ==
    {p \in 1..Len(s) : s[p] = "\n" \/ (31 < Ord(s[p]) /\ Ord(s[p]) < 127)}

\* The j-th of a set of positions, in increasing order.
NthOf(positions, j) ==
    CHOOSE p \in positions : Cardinality({q \in positions : q <= p}) = j

\* C17: sanitize returns the characters of its input that are a newline or
\* have a code point strictly between 31 and 127, all of them, in their
\* order, and nothing else; sanitizing the result again changes nothing.
C17_SanitizeSubsequence ==
    (text_fn = "sanitize" /\ text_out.has) =>
        LET r == text_out.val.val
        IN  /\ text_out.val.ok
            /\ Len(r) = Cardinality(KeptPositions(text_in))
            /\ \A j \in 1..Len(r) :
                   r[j] = text_in[NthOf(KeptPositions(text_in), j)]
            /\ \A j \in 1..Len(r) : r[j] \notin {"\r", "\t", ESC, DEL, EACUTE}
            /\ sanitize(r) = r

\* C17's case: control characters and DEL were dropped around a kept
\* letter and a kept newline.
C17_Witness ==
    /\ text_fn = "sanitize"
    /\ text_in = <<ESC, "a", "\n", DEL>>
    /\ text_out.has
    /\ text_out.val.val = <<"a", "\n">>

\* Entry i writes a command: a write after the two of the handshake that is
\* not the logout.
IsCommand(i) == IsWrite(i) /\ WriteNumber(i) >= 3 /\ ~IsLogout(i)

\* C18: the session goes Disconnected, Ready, Closing, Disconnected.
\* Commands and the logout are written only after the handshake completed,
\* no command after the logout; the logout is the last write; and nothing
\* is read or written once the transport is closed.
C18_LifecycleOrder ==
    /\ \A i \in Entries :
           /\ (IsCommand(i) \/ IsLogout(i)) =>
                  ReadBefore(LoginPrompt(username), i)
           /\ IsCommand(i) => \A j \in Entries : j < i => ~IsLogout(j)
           /\ IsLogout(i) => \A j \in Entries : j > i => ~IsWrite(j)
           /\ IsClose(i) =>
                  \A j \in Entries : j > i => ~(IsRead(j) \/ IsWrite(j))
    /\ conn = "closed" => pc = "done"

\* C18's case: a poll is over in which a command was written, then the
\* logout, then the transport was closed.
C18_Witness ==
    /\ pc = "done"
    /\ conn = "closed"
    /\ \E i, j, k \in Entries :
           i < j /\ j < k /\ IsCommand(i) /\ IsLogout(j) /\ IsClose(k)

\* The writes of the poll, in order.
Writes == SelectSeq(log, LAMBDA e : e.op = "write")

\* The lines a successful poll writes after the handshake.
PollCommands ==
    <<CmdUp, CmdUp, CmdUp, CmdUp, CmdXdslInfo,
      CmdUp, CmdUp, CmdUp, CmdUp, CmdIpIflist, CmdExit>>

\* Between entries i and j the echo was read and then the output up to the
\* prompt marker.
OutputReadBetween(i, j) ==
    \E a, b \in Entries :
        /\ i < a /\ a < b /\ b < j
        /\ IsRead(a) /\ log[a].ok /\ log[a].text = EchoTerminator
        /\ IsRead(b) /\ log[b].ok /\ log[b].text = PromptMarker(username)

\* C19: every query resets the level before its command.  The lines
\* written after the handshake are, in order, '..' four times, 'xdsl info',
\* '..' four times, 'ip iflist', and the logout: all of them in a
\* successful poll, the first ones of them in any poll.  A command is
\* written only after the output of the command before it was read up to
\* its prompt, and so is the logout of a successful poll.
C19_CommandOrder ==
    /\ \A n \in 1..Len(Writes) :
           n >= 3 =>
               \/ Writes[n].text = CmdExit \o CRLF
               \/ n - 2 <= Len(PollCommands)
                      /\ Writes[n].text = PollCommands[n - 2] \o CRLF
    /\ (pc = "done" /\ out.has /\ err = "none") =>
           /\ Len(Writes) = Len(PollCommands) + 2
           /\ \A n \in 1..Len(PollCommands) :
                  Writes[n + 2].text = PollCommands[n] \o CRLF
           /\ \A i, j \in Entries :
                  (IsCommand(i) /\ IsLogout(j)) => OutputReadBetween(i, j)
    /\ \A i, j \in Entries :
           (IsCommand(i) /\ IsCommand(j) /\ i < j) => OutputReadBetween(i, j)

\* C19's case: a successful poll is over, its eleven lines written.
C19_Witness ==
    /\ pc = "done"
    /\ out.has
    /\ err = "none"
    /\ Len(Writes) = 13
    /\ Writes[7].text = CmdXdslInfo \o CRLF
    /\ Writes[12].text = CmdIpIflist \o CRLF

\* The reads of the poll so far.
ReadCount == Cardinality({i \in Entries : IsRead(i)})

\* The steps a poll has at most before it, by its position.
StepsLeft ==
    LET after == IF query = "get_xdsl_info" THEN 22 ELSE 4
    IN  CASE pc = "start" -> 50
          [] pc = "init_username" -> 49
          [] pc = "init_send_username" -> 48
          [] pc = "init_password" -> 47
          [] pc = "init_send_password" -> 46
          [] pc = "init_prompt" -> 45
          [] pc = "ready" -> 44
          [] pc = "send_write" -> after + 3 * Len(cmds)
          [] pc = "send_echo" -> after + 3 * Len(cmds) - 1
          [] pc = "send_output" -> after + 3 * Len(cmds) - 2
          [] pc = "returned" -> after
          [] pc = "print" -> 3
          [] pc = "exit" -> 2
          [] pc = "done" -> 0

\* Every step of a poll brings its end nearer, so a poll whose calls all
\* return or raise comes to its end.
PollProgress == [][StepsLeft' < StepsLeft]_vars

\* C20: a poll makes at most 3 reads for the handshake and 2 for each of at
\* most 10 commands, and it ends with the snapshot emitted or an error
\* reported, and with the session disconnected in both cases.
C20_EndsDisconnected ==
    /\ ReadCount <= 3 + 2 * 10
    /\ pc = "done" =>
           /\ out.has \/ err # "none"
           /\ conn # "open"

=============================================================================
